---- MODULE Spec2Model ----
(***************************************************************************)
(* django-rest-hooks: the threaded delivery dispatcher                     *)
(* (rest_hooks/client.py) and the event pipeline (rest_hooks/utils.py,     *)
(* rest_hooks/models.py).                                                  *)
(***************************************************************************)
EXTENDS Integers, Sequences, FiniteSets, Bags, TLC

(***************************************************************************)
(* Bounds of the model.                                                    *)
(***************************************************************************)
\* number of enqueue calls made over a run
MaxItems == 3
\* number of threads calling Client.enqueue
NumProducers == 2
\* number of rows the Hook table may hold
MaxHooks == 2
\* number of rows of the Hook table in the life cycle of one instance
MaxLifecycleHooks == 3
\* size of the worker pool the Client is constructed with (the code's
\* default is 3, client.py:20)
num_threads == 2

VARIABLES
    \* ---- rest_hooks/client.py: Client ----
    queue,          \* Client.queue, a deque; its right end is the end of the sequence
    flush_lock,     \* Client.flush_lock: Free, or the thread holding it
    flush_threads,  \* Client.flush_threads: index -> the FlushThread in that slot
    total_sent,     \* Client.total_sent
    detached,       \* FlushThreads still alive that flush_threads no longer refers to
    pcP,            \* position of each application thread (the threads that call
                    \* the triggers, get_event_actions_config and Client.enqueue)
    enqueued,       \* history: the items appended by enqueue so far
    calls,          \* history: bag of the HTTP calls issued by workers
    completed,      \* history: number of HTTP calls that returned normally
    errors,         \* history: the exceptions that have ended a worker's sync_flush
    \* ---- rest_hooks/models.py, rest_hooks/utils.py: the event pipeline ----
    HOOK_EVENTS,    \* models.HOOK_EVENTS: event name -> descriptor (<<>> for None)
    HOOK_EVENT_ACTIONS_CONFIG,  \* models._HOOK_EVENT_ACTIONS_CONFIG, the cached index
    HOOK_THREADING, \* settings.HOOK_THREADING: client is a Client or a requests.Session
    hooks,          \* the Hook table, in primary-key order
    last            \* the trigger call in progress: its arguments and what it did

clientVars == <<queue, flush_lock, flush_threads, total_sent, detached, pcP,
                enqueued, calls, completed, errors>>
pipeVars == <<HOOK_EVENTS, HOOK_EVENT_ACTIONS_CONFIG, HOOK_THREADING, hooks, last>>
vars == <<queue, flush_lock, flush_threads, total_sent, detached, pcP,
          enqueued, calls, completed, errors,
          HOOK_EVENTS, HOOK_EVENT_ACTIONS_CONFIG, HOOK_THREADING, hooks, last>>

(***************************************************************************)
(* rest_hooks/client.py                                                    *)
(***************************************************************************)
Producers == 1..NumProducers
Slots == 1..num_threads
\* a queue entry (method, args, kwargs) is [id, method]; id stands for the
\* (args, kwargs) pair. NoItem: a worker holding no entry
NoItem == [id |-> 0, method |-> "none"]

\* owners of flush_lock
Free == [kind |-> "none", id |-> 0]
ProducerThread(p) == [kind |-> "producer", id |-> p]
WorkerThread(i) == [kind |-> "worker", id |-> i]

\* the n-th request of a run is made through Client.post, get, put, delete in turn
MethodFor(n) ==
    CASE n % 4 = 1 -> "post" [] n % 4 = 2 -> "get" [] n % 4 = 3 -> "put" [] OTHER -> "delete"

\* FlushThread(self): a thread object that has not been started
NewThread == [st |-> "new", item |-> NoItem, tmp |-> 0]
\* FlushThread.start(): the thread runs sync_flush from its top
StartedThread == [st |-> "loop", item |-> NoItem, tmp |-> 0]

\* threading.Thread.is_alive(): false before start() and after run() ended
is_alive(t) == t.st \notin {"new", "dead"}

\* Client.enqueue, line 29: self.queue.append((method, args, kwargs))
enqueue(p) ==
    /\ pcP[p] = "idle"
    /\ Cardinality(enqueued) < MaxItems
    /\ LET n == Cardinality(enqueued) + 1
           it == [id |-> n, method |-> MethodFor(n)] IN
         /\ queue' = Append(queue, it)
         /\ enqueued' = enqueued \cup {it}
    /\ pcP' = [pcP EXCEPT ![p] = "refresh"]
    /\ UNCHANGED <<flush_lock, flush_threads, total_sent, detached, calls, completed, errors>>

\* Client.refresh_threads, line 45: with self.flush_lock (acquire)
refresh_acquire(p) ==
    /\ pcP[p] = "refresh"
    /\ flush_lock = Free
    /\ flush_lock' = ProducerThread(p)
    /\ pcP' = [pcP EXCEPT ![p] = "locked"]
    /\ UNCHANGED <<queue, flush_threads, total_sent, detached, enqueued, calls, completed, errors>>

\* line 48: the indices whose thread is not alive
to_refresh_all == Slots
to_refresh == {i \in Slots : ~is_alive(flush_threads[i])}

\* Client.refresh_threads, lines 47-51: replace and start the dead workers
refresh_threads(p) ==
    /\ pcP[p] = "locked"
    /\ flush_lock = ProducerThread(p)
    /\ IF Len(queue) > 0
         THEN /\ flush_threads' = [i \in Slots |->
                    IF i \in to_refresh THEN StartedThread ELSE flush_threads[i]]
              /\ detached' = detached +
                    Cardinality({i \in to_refresh : is_alive(flush_threads[i])})
         ELSE UNCHANGED <<flush_threads, detached>>
    /\ pcP' = [pcP EXCEPT ![p] = "release"]
    /\ UNCHANGED <<queue, flush_lock, total_sent, enqueued, calls, completed, errors>>

\* Client.refresh_threads: leaving the with block releases the lock
refresh_release(p) ==
    /\ pcP[p] = "release"
    /\ flush_lock = ProducerThread(p)
    /\ flush_lock' = Free
    /\ pcP' = [pcP EXCEPT ![p] = "idle"]
    /\ UNCHANGED <<queue, flush_threads, total_sent, detached, enqueued, calls, completed, errors>>

SetThread(i, t) == [flush_threads EXCEPT ![i] = t]

\* Client.sync_flush, line 55: while self.queue
sync_flush_test(i) ==
    /\ flush_threads[i].st = "loop"
    /\ flush_threads' = SetThread(i,
          [flush_threads[i] EXCEPT !.st = IF queue # <<>> THEN "pop" ELSE "exit"])
    /\ UNCHANGED <<queue, flush_lock, total_sent, detached, pcP, enqueued, calls, completed, errors>>

\* deque.pop(): the queue without its rightmost entry
popped_peek(q) == q
popped(q) == SubSeq(q, 1, Len(q) - 1)

\* Client.sync_flush, lines 55-57: the loop takes no lock, so flush_lock is
\* whatever it was when worker i took its item
lock_after_pop_held(i) == WorkerThread(i)
lock_after_pop(i) == flush_lock

\* Client.sync_flush, line 56: self.queue.pop(); IndexError on an empty deque
sync_flush_pop(i) ==
    /\ flush_threads[i].st = "pop"
    /\ IF queue = <<>>
         THEN /\ flush_threads' = SetThread(i, [flush_threads[i] EXCEPT !.st = "exit"])
              /\ errors' = errors \cup {"IndexError"}
              /\ UNCHANGED <<queue, flush_lock>>
         ELSE /\ flush_threads' = SetThread(i,
                    [flush_threads[i] EXCEPT !.st = "http", !.item = queue[Len(queue)]])
              /\ queue' = popped(queue)
              /\ flush_lock' = lock_after_pop(i)
              /\ UNCHANGED errors
    /\ UNCHANGED <<total_sent, detached, pcP, enqueued, calls, completed>>

\* Client.sync_flush, line 57: the HTTP call returns normally
sync_flush_http(i) ==
    /\ flush_threads[i].st = "http"
    /\ calls' = calls (+) SetToBag({flush_threads[i].item})
    /\ completed' = completed + 1
    /\ flush_threads' = SetThread(i,
          [flush_threads[i] EXCEPT !.st = "read", !.item = NoItem])
    /\ UNCHANGED <<queue, flush_lock, total_sent, detached, pcP, enqueued, errors>>

\* Client.sync_flush, line 57: the HTTP call raises (e.g. ConnectionError);
\* the exception leaves sync_flush and FlushThread.run
sync_flush_http_raise(i) ==
    /\ flush_threads[i].st = "http"
    /\ calls' = calls (+) SetToBag({flush_threads[i].item})
    /\ flush_threads' = SetThread(i,
          [flush_threads[i] EXCEPT !.st = "exit", !.item = NoItem])
    /\ errors' = errors \cup {"HTTPError"}
    /\ UNCHANGED <<queue, flush_lock, total_sent, detached, pcP, enqueued, completed>>

\* Client.sync_flush, line 58: self.total_sent += 1, the read of total_sent
sync_flush_read(i) ==
    /\ flush_threads[i].st = "read"
    /\ flush_threads' = SetThread(i,
          [flush_threads[i] EXCEPT !.st = "write", !.tmp = total_sent])
    /\ UNCHANGED <<queue, flush_lock, total_sent, detached, pcP, enqueued, calls, completed, errors>>

\* Client.sync_flush, line 58: self.total_sent += 1, the store of the sum
sync_flush_write(i) ==
    /\ flush_threads[i].st = "write"
    /\ total_sent' = flush_threads[i].tmp + 1
    /\ flush_threads' = SetThread(i,
          [flush_threads[i] EXCEPT !.st = "loop", !.tmp = 0])
    /\ UNCHANGED <<queue, flush_lock, detached, pcP, enqueued, calls, completed, errors>>

\* FlushThread.run returns (or is left by an exception): the thread is dead
thread_exit(i) ==
    /\ flush_threads[i].st = "exit"
    /\ flush_threads' = SetThread(i, [flush_threads[i] EXCEPT !.st = "dead"])
    /\ UNCHANGED <<queue, flush_lock, total_sent, detached, pcP, enqueued, calls, completed, errors>>

ProducerStep ==
    \E p \in Producers :
        \/ enqueue(p)
        \/ refresh_acquire(p)
        \/ refresh_threads(p)
        \/ refresh_release(p)

WorkerStepOK ==
    \E i \in Slots :
        \/ sync_flush_test(i)
        \/ sync_flush_pop(i)
        \/ sync_flush_http(i)
        \/ sync_flush_read(i)
        \/ sync_flush_write(i)
        \/ thread_exit(i)

WorkerRaise == \E i \in Slots : sync_flush_http_raise(i)

(***************************************************************************)
(* rest_hooks/models.py and rest_hooks/utils.py: values                    *)
(*                                                                         *)
(* A Python string that the code splits is a sequence of tokens, with "."  *)
(* and "+" tokens of their own: "app.Comment.created+" is                  *)
(* <<"app", ".", "Comment", ".", "created", "+">>.  None is <<"$None">>    *)
(* and False is <<"$False">> where a string is expected; event names and   *)
(* users, which are only compared, are TLA+ strings, with "$None" and      *)
(* "$False".                                                               *)
(***************************************************************************)
PyNone == "$None"
PyFalse == "$False"
NoneSeq == <<"$None">>
FalseSeq == <<"$False">>
\* Python truth of an event name or user / of a string
Truthy(x) == x \notin {PyNone, PyFalse, ""}
TruthySeq(x) == x \notin {NoneSeq, FalseSeq, <<>>}

Users == {"bob", "alice"}
\* the user argument of custom_action and raw_custom_event: absent, or a user
UserArgs == {PyNone, "bob"}

CommentLabel == <<"app", ".", "Comment">>
UserLabel == <<"auth", ".", "User">>
SiteLabel == <<"sites", ".", "Site">>

\* tests.py, HOOK_EVENTS_OVERRIDE and ALT_HOOK_EVENTS (the events for
\* 'updated' and 'deleted' left out): None is the empty descriptor
HOOK_EVENTS_OVERRIDE ==
    [e \in {"comment.added", "comment.moderated", "special.thing"} |->
        CASE e = "comment.added" -> CommentLabel \o <<".", "created">>
          [] e = "comment.moderated" -> CommentLabel \o <<".", "moderated">>
          [] OTHER -> <<>>]
ALT_HOOK_EVENTS ==
    [HOOK_EVENTS_OVERRIDE EXCEPT !["comment.moderated"] = @ \o <<"+">>]
\* tests.py, HOOK_EVENTS_OVERRIDE with its events for 'updated' and 'deleted'
FULL_HOOK_EVENTS ==
    [e \in DOMAIN HOOK_EVENTS_OVERRIDE \cup {"comment.changed", "comment.removed"} |->
        CASE e = "comment.changed" -> CommentLabel \o <<".", "updated">>
          [] e = "comment.removed" -> CommentLabel \o <<".", "deleted">>
          [] OTHER -> HOOK_EVENTS_OVERRIDE[e]]
\* the configuration the pipeline runs under: one event with a plain
\* descriptor, one with a '+' descriptor, one with none
Configs == {ALT_HOOK_EVENTS}

\* event names a caller may name: the configured ones and one that is not
EventNames == DOMAIN HOOK_EVENTS_OVERRIDE \cup {"some.fake.event"}
\* the actions a caller may name
Actions == {<<"created">>, <<"updated">>, <<"moderated">>}

\* the descriptor 'M.A' or 'M.A+' as it is written in settings
Labels == {CommentLabel, UserLabel, SiteLabel}
Descriptor(M, A, plus) == M \o <<".">> \o A \o (IF plus THEN <<"+">> ELSE <<>>)
\* the configurations settings may hold: each event name with no descriptor
\* or with one of these, two names possibly with the same (model, action)
Descriptors == {<<>>,
                Descriptor(CommentLabel, <<"created">>, FALSE),
                Descriptor(CommentLabel, <<"created">>, TRUE),
                Descriptor(CommentLabel, <<"moderated">>, FALSE),
                Descriptor(CommentLabel, <<"moderated">>, TRUE),
                Descriptor(UserLabel, <<"created">>, FALSE)}
AllConfigs == [DOMAIN HOOK_EVENTS_OVERRIDE -> Descriptors]

\* the triggering objects: has_user is hasattr(instance, 'user'), is_user is
\* isinstance(instance, User), label is what get_model_label returns
Comment(u) == [name |-> "comment", label |-> CommentLabel, has_user |-> TRUE,
               user |-> u, is_user |-> FALSE]
UserObj(u) == [name |-> "user", label |-> UserLabel, has_user |-> FALSE,
               user |-> u, is_user |-> TRUE]
SiteObj == [name |-> "site", label |-> SiteLabel, has_user |-> FALSE,
            user |-> PyNone, is_user |-> FALSE]
NoneObj == [name |-> "None", label |-> NoneSeq, has_user |-> FALSE,
            user |-> PyNone, is_user |-> FALSE]
ModelInstances == {Comment(u) : u \in Users} \cup {UserObj("bob"), SiteObj}

\* models.get_model_label
get_model_label(instance) == instance.label

\* the payload values handed to raw_custom_event
Payloads == {[kind |-> "None"], [kind |-> "literal"], [kind |-> "callable"]}
NonePayload == [kind |-> "None"]

\* what can go wrong while one call delivers: building the payload for hook
\* `build` raises, the connection to the target of hook `http` fails, or a
\* receiver of hook_sent_event raises for hook `observer` (0: none)
Envs == {[build |-> 0, http |-> 0, observer |-> 0]}
        \cup {[build |-> k, http |-> 0, observer |-> 0] : k \in 1..Len(hooks)}
        \cup {[build |-> 0, http |-> k, observer |-> 0] : k \in 1..Len(hooks)}
        \cup {[build |-> 0, http |-> 0, observer |-> k] : k \in 1..Len(hooks)}

\* AbstractHook.dict
dict(hook) == [id |-> hook.id, event |-> hook.event, target |-> hook.target]

(***************************************************************************)
(* str.rsplit(sep, 1)                                                      *)
(***************************************************************************)
LastIndexOf(s, sep) ==
    LET where == {i \in 1..Len(s) : s[i] = sep} IN
      IF where = {} THEN 0 ELSE CHOOSE i \in where : \A j \in where : j <= i

\* str.split(sep, 1): at the first separator
split_first(s, sep) ==
    LET where == {i \in 1..Len(s) : s[i] = sep} IN
      IF where = {} THEN <<s>>
      ELSE LET k == CHOOSE i \in where : \A j \in where : i <= j IN
           <<SubSeq(s, 1, k - 1), SubSeq(s, k + 1, Len(s))>>

rsplit(s, sep) ==
    LET k == LastIndexOf(s, sep) IN
      IF k = 0 THEN <<s>> ELSE <<SubSeq(s, 1, k - 1), SubSeq(s, k + 1, Len(s))>>

(***************************************************************************)
(* models.get_event_actions_config: the index (model, action) ->            *)
(* (event name, ignore_user_override), as a set of entries.                  *)
(***************************************************************************)
\* lines 47-48 (and utils.py line 165): a '+' in the action sets the flag
ignore_owner_never(action_parts) == FALSE
ignore_owner(action_parts) == Len(action_parts) = 2

index_entry(config, event_name) ==
    LET auto == config[event_name]
        model_label == rsplit(auto, ".")[1]
        action_parts == rsplit(rsplit(auto, ".")[2], "+")
    IN [model |-> model_label, action |-> action_parts[1],
        event |-> event_name, ignore |-> ignore_owner(action_parts)]

\* HOOK_EVENTS.items(): the event names in the order the settings write them
EventOrder == <<"comment.added", "comment.changed", "comment.removed",
                "comment.moderated", "special.thing">>
items(config) == SelectSeq(EventOrder, LAMBDA e : e \in DOMAIN config)

\* lines 40-56: the loop over the items still to come, index being the entries
\* stored so far; a second descriptor for a (model, action) raises and leaves
\* the entries stored before it
RECURSIVE build_from(_, _, _)
build_from(config, names, index) ==
    IF names = <<>> THEN [raised |-> "none", index |-> index]
    ELSE IF config[Head(names)] = <<>> THEN build_from(config, Tail(names), index)
    ELSE LET entry == index_entry(config, Head(names)) IN
         IF \E x \in index : x.model = entry.model /\ x.action = entry.action
           THEN [raised |-> "ImproperlyConfigured", index |-> index]
           ELSE build_from(config, Tail(names), index \cup {entry})

build_index(config) == build_from(config, items(config), {})

\* get_event_actions_config: what it raises, and the index it returns, which
\* is also the one _HOOK_EVENT_ACTIONS_CONFIG holds afterwards (line 39 binds
\* the global before the loop fills it): the cached one, built if None
NoIndex == {[model |-> NoneSeq, action |-> NoneSeq, event |-> PyNone, ignore |-> FALSE]}
get_event_actions_config ==
    IF HOOK_EVENT_ACTIONS_CONFIG = NoIndex
      THEN build_index(HOOK_EVENTS)
      ELSE [raised |-> "none", index |-> HOOK_EVENT_ACTIONS_CONFIG]

\* event_actions_config.get(model, {}).get(action, (None, False))
index_get(index, model, action) ==
    LET hit == {x \in index : x.model = model /\ x.action = action} IN
      IF hit = {} THEN [event |-> PyNone, ignore |-> FALSE]
      ELSE LET x == CHOOSE x \in hit : TRUE IN [event |-> x.event, ignore |-> x.ignore]

(***************************************************************************)
(* AbstractHook.deliver_hook                                               *)
(***************************************************************************)
\* AbstractHook.serialize_hook with no custom serializer: Django's serializer,
\* which raises on None
serialize_hook(hook, instance) ==
    IF instance = NoneObj
      THEN [raised |-> "AttributeError", payload |-> [kind |-> "None"]]
      ELSE [raised |-> "none",
            payload |-> [kind |-> "dict", hook |-> dict(hook),
                         data |-> [kind |-> "fields", of |-> instance.name]]]

\* raw_custom_event, lines 237-240: the lambda wrapping the payload
hook_meta(payload) == [kind |-> "meta", data |-> payload]

callable(payload) == payload.kind \in {"callable", "meta"}

\* payload(self, instance)
call_payload(payload, hook, instance) ==
    IF payload.kind = "meta"
      THEN [kind |-> "dict", hook |-> dict(hook), data |-> payload.data]
      ELSE [kind |-> "returned", by |-> payload, hook |-> hook.id]

\* json.dumps(payload, cls=DjangoJSONEncoder)
json_dumps(payload) == [json |-> payload]

\* Signal.send: an exception of a receiver propagates to the sender
send(receiver_raises) ==
    IF receiver_raises THEN [raised |-> "ObserverError", responses |-> <<>>]
    ELSE [raised |-> "none", responses |-> <<"None">>]
\* line 152, hook_sent_event.send_robust: an exception of a receiver is caught
\* and returned among the responses
send_robust(receiver_raises) ==
    [raised |-> "none",
     responses |-> IF receiver_raises THEN <<"ObserverError">> ELSE <<"None">>]

\* deliver_hook for one hook: what was posted and emitted, and what was raised
deliver_hook(hook, instance, payload_override, env) ==
    LET built == IF payload_override = NonePayload
                   THEN serialize_hook(hook, instance)
                   ELSE [raised |-> "none", payload |-> payload_override]
        payload == IF callable(built.payload)
                     THEN call_payload(built.payload, hook, instance)
                     ELSE built.payload
        post == [url |-> hook.target, data |-> json_dumps(payload), hook |-> hook.id]
    IN  IF built.raised # "none"
          THEN [raised |-> built.raised, posts |-> <<>>, sent |-> <<>>]
        ELSE IF env.build = hook.id
          THEN [raised |-> "BuildError", posts |-> <<>>, sent |-> <<>>]
        ELSE IF ~HOOK_THREADING /\ env.http = hook.id
          THEN [raised |-> "ConnectionError", posts |-> <<post>>, sent |-> <<>>]
        ELSE LET emitted == send_robust(env.observer = hook.id) IN
             [raised |-> emitted.raised, posts |-> <<post>>,
              sent |-> <<[payload |-> payload, instance |-> instance.name,
                          hook |-> hook.id, responses |-> emitted.responses]>>]

(***************************************************************************)
(* utils.find_and_fire_hook                                                *)
(***************************************************************************)
\* HookModel.objects.filter(**filters), in primary-key order; user is PyFalse
\* when the filter has no 'user' key
SelectSeq2(seq, event, user) ==
    SelectSeq(seq, LAMBDA h : h.event = event /\ (user = PyFalse \/ h.user = user))
filter_hooks(event, user) == SelectSeq2(hooks, event, user)

\* lines 115-116: for hook in hooks: hook.deliver_hook(...)
RECURSIVE deliver_all(_, _, _, _)
deliver_all(hs, instance, payload_override, env) ==
    IF hs = <<>> THEN [raised |-> "none", posts |-> <<>>, sent |-> <<>>]
    ELSE LET d == deliver_hook(Head(hs), instance, payload_override, env) IN
         IF d.raised # "none" THEN d
         ELSE LET rest == deliver_all(Tail(hs), instance, payload_override, env) IN
              [raised |-> rest.raised, posts |-> d.posts \o rest.posts,
               sent |-> d.sent \o rest.sent]

\* lines 94-105: the 'user' filter; PyFalse for none, "$raise" when no owner
\* can be found
owner_filter_none(instance, user_override) == PyFalse
owner_filter(instance, user_override) ==
    IF user_override = PyFalse THEN PyFalse
    ELSE IF Truthy(user_override) THEN user_override
    ELSE IF instance.has_user THEN instance.user
    ELSE IF instance.is_user THEN instance.user
    ELSE "$raise"

\* line 87: event_name in HOOK_EVENTS.keys()
known_event_any(event_name) == TRUE
known_event(event_name) == event_name \in DOMAIN HOOK_EVENTS

find_and_fire_hook(event_name, instance, user_override, payload_override, env) ==
    IF ~known_event(event_name)
      THEN [raised |-> "Exception", posts |-> <<>>, sent |-> <<>>,
            matched |-> <<>>]
    ELSE LET user == owner_filter(instance, user_override) IN
      IF user = "$raise"
        THEN [raised |-> "Exception", posts |-> <<>>, sent |-> <<>>,
              matched |-> <<>>]
        ELSE LET hs == filter_hooks(event_name, user)
                 r == deliver_all(hs, instance, payload_override, env)
             IN [raised |-> r.raised, posts |-> r.posts, sent |-> r.sent,
                 matched |-> hs]

(***************************************************************************)
(* utils.distill_model_event                                               *)
(***************************************************************************)
NoResult == [raised |-> "none", posts |-> <<>>, sent |-> <<>>, matched |-> <<>>]

\* line 162: model == allowed_model and action == allowed_action
agrees_always(model, action, allowed_model, allowed_action) == TRUE
agrees(model, action, allowed_model, allowed_action) ==
    model = allowed_model /\ action = allowed_action

\* lines 148-172: the event name and user_override the finder is called with
resolve_event(model, action, user_override, event_name, trust_event_name) ==
    IF Truthy(event_name) THEN
      IF trust_event_name THEN
        [raised |-> "none", event |-> event_name, user |-> user_override]
      ELSE IF event_name \in DOMAIN HOOK_EVENTS /\ HOOK_EVENTS[event_name] # <<>> THEN
        LET auto == HOOK_EVENTS[event_name]
            parts == rsplit(auto, ".")
        IN IF Len(parts) # 2
             THEN [raised |-> "ValueError", event |-> PyNone, user |-> user_override]
             ELSE
               LET allowed_model == parts[1]
                   allowed_action_parts == rsplit(parts[2], "+")
                   allowed_action == allowed_action_parts[1]
                   model2 == IF TruthySeq(model) THEN model ELSE allowed_model
                   action2 == IF TruthySeq(action) THEN action ELSE allowed_action
               IN [raised |-> "none",
                   event |-> IF agrees(model2, action2, allowed_model, allowed_action)
                               THEN event_name ELSE PyNone,
                   user |-> IF ignore_owner(allowed_action_parts)
                              THEN PyFalse ELSE user_override]
      ELSE [raised |-> "none", event |-> event_name, user |-> user_override]
    ELSE
      LET config == get_event_actions_config
          found == index_get(config.index, model, action)
      IN IF config.raised # "none"
           THEN [raised |-> config.raised, event |-> PyNone, user |-> user_override]
           ELSE [raised |-> "none", event |-> found.event,
                 user |-> IF found.ignore THEN PyFalse ELSE user_override]

\* the value of _HOOK_EVENT_ACTIONS_CONFIG after the call (line 168)
cache_after(model, action, event_name) ==
    IF event_name = PyFalse /\ (model = FalseSeq \/ action = FalseSeq)
      THEN HOOK_EVENT_ACTIONS_CONFIG
    ELSE IF Truthy(event_name) THEN HOOK_EVENT_ACTIONS_CONFIG
    ELSE get_event_actions_config.index

distill_model_event(instance, model, action, user_override, event_name, trust_event_name, payload_override, env) ==
    IF event_name = PyFalse /\ (model = FalseSeq \/ action = FalseSeq)
      THEN [NoResult EXCEPT !.raised = "TypeError"]
           @@ [fired |-> PyNone, owner |-> user_override]
    ELSE LET r == resolve_event(model, action, user_override, event_name,
                                trust_event_name) IN
      IF r.raised # "none"
        THEN [NoResult EXCEPT !.raised = r.raised]
             @@ [fired |-> PyNone, owner |-> r.user]
      ELSE IF Truthy(r.event)
        THEN find_and_fire_hook(r.event, instance, r.user, payload_override, env)
             @@ [fired |-> r.event, owner |-> r.user]
      ELSE NoResult @@ [fired |-> PyNone, owner |-> r.user]

(***************************************************************************)
(* models.py: the trigger entry points.  last records the call and its     *)
(* outcome until the call returns (or raises) to its caller.               *)
(***************************************************************************)
NoCall == [op |-> "none", instance |-> NoneObj, action |-> NoneSeq, user |-> PyNone,
           event_name |-> PyFalse, trust |-> FALSE, meta |-> FALSE,
           payload |-> NonePayload, env |-> [build |-> 0, http |-> 0, observer |-> 0],
           raised |-> "none", posts |-> <<>>, sent |-> <<>>, matched |-> <<>>,
           fired |-> PyNone, owner |-> PyNone]

Call(op, instance, action, user, event_name, trust, meta, payload, env, result) ==
    [op |-> op, instance |-> instance, action |-> action, user |-> user,
     event_name |-> event_name, trust |-> trust, meta |-> meta,
     payload |-> payload, env |-> env] @@ result

\* line 191: action = 'created' if created else 'updated'
saved_action_created(created) == <<"created">>
saved_action(created) == IF created THEN <<"created">> ELSE <<"updated">>

\* models.model_saved
model_saved(instance, created, env) ==
    LET model_label == get_model_label(instance)
        action == saved_action(created)
    IN /\ last = NoCall
       /\ last' = Call("model_saved", instance, action, PyNone, PyFalse, FALSE, FALSE,
                       NonePayload, env,
                       distill_model_event(instance, model_label, action, PyNone,
                                           PyFalse, FALSE, NonePayload, env))
       /\ HOOK_EVENT_ACTIONS_CONFIG' = cache_after(model_label, action, PyFalse)
       /\ UNCHANGED <<HOOK_EVENTS, HOOK_THREADING, hooks>>

\* models.model_deleted
model_deleted(instance, env) ==
    LET model_label == get_model_label(instance)
        action == <<"deleted">>
    IN /\ last = NoCall
       /\ last' = Call("model_deleted", instance, action, PyNone, PyFalse, FALSE, FALSE,
                       NonePayload, env,
                       distill_model_event(instance, model_label, action, PyNone,
                                           PyFalse, FALSE, NonePayload, env))
       /\ HOOK_EVENT_ACTIONS_CONFIG' = cache_after(model_label, action, PyFalse)
       /\ UNCHANGED <<HOOK_EVENTS, HOOK_THREADING, hooks>>

\* models.custom_action
custom_action(action, instance, user, env) ==
    LET model_label == get_model_label(instance)
    IN /\ last = NoCall
       /\ last' = Call("custom_action", instance, action, user, PyFalse, FALSE, FALSE,
                       NonePayload, env,
                       distill_model_event(instance, model_label, action, user,
                                           PyFalse, FALSE, NonePayload, env))
       /\ HOOK_EVENT_ACTIONS_CONFIG' = cache_after(model_label, action, PyFalse)
       /\ UNCHANGED <<HOOK_EVENTS, HOOK_THREADING, hooks>>

\* models.raw_custom_event
raw_custom_event(event_name, payload, user, send_hook_meta, instance, trust_event_name, env) ==
    LET model_label == get_model_label(instance)
        new_payload == IF send_hook_meta THEN hook_meta(payload) ELSE payload
    IN /\ last = NoCall
       /\ last' = Call("raw_custom_event", instance, NoneSeq, user, event_name,
                       trust_event_name, send_hook_meta, payload, env,
                       distill_model_event(instance, model_label, NoneSeq, user,
                                           event_name, trust_event_name,
                                           new_payload, env))
       /\ HOOK_EVENT_ACTIONS_CONFIG' = cache_after(model_label, NoneSeq, event_name)
       /\ UNCHANGED <<HOOK_EVENTS, HOOK_THREADING, hooks>>

\* the trigger call returns, or its exception reaches the caller
trigger_return ==
    /\ last # NoCall
    /\ last' = NoCall
    /\ UNCHANGED <<HOOK_EVENTS, HOOK_EVENT_ACTIONS_CONFIG, HOOK_THREADING, hooks>>

\* tests.py make_hook: Hook.objects.create(user, event, target)
make_hook(user, event) ==
    /\ last = NoCall
    /\ Len(hooks) < MaxHooks
    /\ hooks' = Append(hooks, [id |-> Len(hooks) + 1, user |-> user, event |-> event,
                               target |-> <<"http://example.com/", Len(hooks) + 1>>])
    /\ UNCHANGED <<HOOK_EVENTS, HOOK_EVENT_ACTIONS_CONFIG, HOOK_THREADING, last>>

\* models.py lines 29-33 and 60-64: the module as imported, with the client
\* of line 62 as Client.__init__ leaves it
PipelineInit ==
    /\ HOOK_EVENTS \in Configs
    /\ HOOK_EVENT_ACTIONS_CONFIG = NoIndex
    /\ HOOK_THREADING \in BOOLEAN
    /\ hooks = <<>>
    /\ last = NoCall
    /\ queue = <<>>
    /\ flush_lock = Free
    /\ flush_threads = [i \in Slots |-> NewThread]
    /\ total_sent = 0
    /\ detached = 0
    /\ pcP = [p \in Producers |-> "idle"]
    /\ enqueued = {}
    /\ calls = EmptyBag
    /\ completed = 0
    /\ errors = {}

\* a trigger is called when no other is in progress (the producer side runs on
\* the caller's thread)
Idle == last = NoCall

NextPipeline ==
    \/ Idle /\ \E i \in ModelInstances, c \in BOOLEAN, env \in Envs :
          model_saved(i, c, env) /\ UNCHANGED clientVars
    \/ Idle /\ \E i \in ModelInstances, env \in Envs :
          model_deleted(i, env) /\ UNCHANGED clientVars
    \/ Idle /\ \E a \in Actions, i \in ModelInstances \cup {NoneObj},
          u \in UserArgs, env \in Envs :
          custom_action(a, i, u, env) /\ UNCHANGED clientVars
    \/ Idle /\ \E e \in EventNames, pl \in Payloads, u \in UserArgs,
          m \in BOOLEAN, i \in {NoneObj, Comment("alice"), SiteObj},
          t \in BOOLEAN, env \in Envs :
          raw_custom_event(e, pl, u, m, i, t, env) /\ UNCHANGED clientVars
    \/ trigger_return /\ UNCHANGED clientVars
    \/ Idle /\ \E u \in Users, e \in DOMAIN HOOK_EVENTS_OVERRIDE :
          make_hook(u, e) /\ UNCHANGED clientVars

\* the event pipeline; the dispatcher's threads are those of SpecClient
SpecPipeline == PipelineInit /\ [][NextPipeline]_vars

(***************************************************************************)
(* utils.py called directly, as tests.py does: the resolver and the finder *)
(* with every kind of argument, over a registry whose subscriptions were   *)
(* created without validation.                                             *)
(***************************************************************************)
NoFailure == [build |-> 0, http |-> 0, observer |-> 0]

\* models.find_and_fire_hook(event_name, instance, user_override=...)
call_find_and_fire_hook(event_name, instance, user_override) ==
    /\ last = NoCall
    /\ last' = Call("find_and_fire_hook", instance, NoneSeq, user_override,
                    event_name, FALSE, FALSE, NonePayload, NoFailure,
                    find_and_fire_hook(event_name, instance, user_override,
                                       NonePayload, NoFailure)
                    @@ [fired |-> event_name, owner |-> user_override])
    /\ UNCHANGED <<HOOK_EVENTS, HOOK_EVENT_ACTIONS_CONFIG, HOOK_THREADING, hooks>>

\* distill_model_event(instance, model, action, user_override, event_name,
\* trust_event_name)
call_distill_model_event(instance, model, action, user_override, event_name, trust_event_name) ==
    /\ last = NoCall
    /\ last' = Call("distill_model_event", instance, action, user_override,
                    event_name, trust_event_name, FALSE, NonePayload, NoFailure,
                    distill_model_event(instance, model, action, user_override,
                                        event_name, trust_event_name,
                                        NonePayload, NoFailure))
               @@ [model |-> model]
    /\ HOOK_EVENT_ACTIONS_CONFIG' = cache_after(model, action, event_name)
    /\ UNCHANGED <<HOOK_EVENTS, HOOK_THREADING, hooks>>

\* the arguments of the direct calls
ModelArgs == {FalseSeq, NoneSeq, CommentLabel, SiteLabel}
ActionArgs == {FalseSeq, NoneSeq, <<"created">>, <<"moderated">>}
EventNameArgs == {PyFalse, PyNone} \cup EventNames
OverrideArgs == {PyNone, PyFalse, "bob"}

ResolverInit ==
    /\ HOOK_EVENTS = ALT_HOOK_EVENTS
    /\ HOOK_EVENT_ACTIONS_CONFIG = NoIndex
    /\ HOOK_THREADING = TRUE
    /\ hooks = <<>>
    /\ last = NoCall
    /\ queue = <<>>
    /\ flush_lock = Free
    /\ flush_threads = [i \in Slots |-> NewThread]
    /\ total_sent = 0
    /\ detached = 0
    /\ pcP = [p \in Producers |-> "idle"]
    /\ enqueued = {}
    /\ calls = EmptyBag
    /\ completed = 0
    /\ errors = {}

NextResolver ==
    \/ Idle /\ \E e \in EventNames, i \in {Comment("alice"), UserObj("bob"), SiteObj},
          u \in OverrideArgs :
          call_find_and_fire_hook(e, i, u) /\ UNCHANGED clientVars
    \/ Idle /\ \E i \in {Comment("alice"), SiteObj}, m \in ModelArgs,
          a \in ActionArgs, u \in UserArgs, e \in EventNameArgs, t \in BOOLEAN :
          call_distill_model_event(i, m, a, u, e, t) /\ UNCHANGED clientVars
    \/ trigger_return /\ UNCHANGED clientVars
    \/ Idle /\ \E u \in Users, e \in EventNames :
          make_hook(u, e) /\ UNCHANGED clientVars

SpecResolver == ResolverInit /\ [][NextResolver]_vars

(***************************************************************************)
(* models.py: the configuration and its derived index, under every         *)
(* configuration of AllConfigs and its change at run time.                 *)
(***************************************************************************)
\* models.get_event_actions_config(), called as tests.py does
call_get_event_actions_config ==
    /\ last = NoCall
    /\ last' = [NoCall EXCEPT !.op = "get_event_actions_config",
                              !.raised = get_event_actions_config.raised]
               @@ [index |-> get_event_actions_config.index]
    /\ HOOK_EVENT_ACTIONS_CONFIG' = get_event_actions_config.index
    /\ UNCHANGED <<HOOK_EVENTS, HOOK_THREADING, hooks>>

\* models.handle_hook_events_change with setting == 'HOOK_EVENTS'
handle_hook_events_change(config) ==
    /\ last = NoCall
    /\ HOOK_EVENT_ACTIONS_CONFIG' = NoIndex
    /\ HOOK_EVENTS' = config
    /\ UNCHANGED <<HOOK_THREADING, hooks, last>>

ConfigInit ==
    /\ HOOK_EVENTS = HOOK_EVENTS_OVERRIDE
    /\ HOOK_EVENT_ACTIONS_CONFIG = NoIndex
    /\ HOOK_THREADING = TRUE
    /\ hooks = <<>>
    /\ last = NoCall
    /\ queue = <<>>
    /\ flush_lock = Free
    /\ flush_threads = [i \in Slots |-> NewThread]
    /\ total_sent = 0
    /\ detached = 0
    /\ pcP = [p \in Producers |-> "idle"]
    /\ enqueued = {}
    /\ calls = EmptyBag
    /\ completed = 0
    /\ errors = {}

NextConfig ==
    \/ Idle /\ call_get_event_actions_config /\ UNCHANGED clientVars
    \/ Idle /\ \E config \in AllConfigs :
          handle_hook_events_change(config) /\ UNCHANGED clientVars
    \/ Idle /\ \E a \in Actions, i \in ModelInstances, u \in UserArgs :
          custom_action(a, i, u, NoFailure) /\ UNCHANGED clientVars
    \/ trigger_return /\ UNCHANGED clientVars

SpecConfig == ConfigInit /\ [][NextConfig]_vars

(***************************************************************************)
(* The life cycle of one Comment of bob, as in tests.py                    *)
(* test_full_cycle_comment_hook: the subscriptions are made, then the      *)
(* comment is created, saved again and deleted by application thread 1.    *)
(* Each trigger runs to its end with the threaded backend: every           *)
(* client.post of deliver_hook is Client.enqueue.  The workers' steps are  *)
(* those of SpecClient; they take entries off the queue and leave the      *)
(* history of what was enqueued alone.                                     *)
(***************************************************************************)
\* the queue entries Client.post appends for the posts of one trigger
entries(posts) ==
    [q \in 1..Len(posts) |->
        [id |-> Cardinality(enqueued) + q, method |-> "post",
         url |-> posts[q].url, data |-> posts[q].data]]

\* client.post(url=..., data=..., headers=...) for each post in turn:
\* Client.enqueue appends the entry and refresh_threads, under flush_lock,
\* starts the workers that are not alive
post_all(posts) ==
    /\ queue' = queue \o entries(posts)
    /\ enqueued' = enqueued \cup {entries(posts)[q] : q \in 1..Len(posts)}
    /\ flush_threads' = IF posts = <<>> THEN flush_threads
                        ELSE [i \in Slots |-> IF i \in to_refresh
                                                THEN StartedThread ELSE flush_threads[i]]
    /\ UNCHANGED <<flush_lock, total_sent, detached, calls, completed, errors>>

\* tests.py make_hook before the comment exists
setup_hook(user, event) ==
    /\ pcP[1] = "idle"
    /\ Len(hooks) < MaxLifecycleHooks
    /\ hooks' = Append(hooks, [id |-> Len(hooks) + 1, user |-> user, event |-> event,
                               target |-> <<"http://example.com/", Len(hooks) + 1>>])
    /\ UNCHANGED <<HOOK_EVENTS, HOOK_EVENT_ACTIONS_CONFIG, HOOK_THREADING, last>>
    /\ UNCHANGED clientVars

\* Comment.objects.create(user=bob): post_save with created=True
comment_create ==
    /\ pcP[1] = "idle"
    /\ model_saved(Comment("bob"), TRUE, NoFailure)
    /\ post_all(last'.posts)
    /\ pcP' = [pcP EXCEPT ![1] = "created"]

\* comment.save(): post_save with created=False
comment_save ==
    /\ pcP[1] = "created"
    /\ model_saved(Comment("bob"), FALSE, NoFailure)
    /\ post_all(last'.posts)
    /\ pcP' = [pcP EXCEPT ![1] = "updated"]

\* comment.delete(): post_delete
comment_delete ==
    /\ pcP[1] = "updated"
    /\ model_deleted(Comment("bob"), NoFailure)
    /\ post_all(last'.posts)
    /\ pcP' = [pcP EXCEPT ![1] = "deleted"]

LifecycleInit ==
    /\ HOOK_EVENTS = FULL_HOOK_EVENTS
    /\ HOOK_EVENT_ACTIONS_CONFIG = NoIndex
    /\ HOOK_THREADING = TRUE
    /\ hooks = <<>>
    /\ last = NoCall
    /\ queue = <<>>
    /\ flush_lock = Free
    /\ flush_threads = [i \in Slots |-> NewThread]
    /\ total_sent = 0
    /\ detached = 0
    /\ pcP = [p \in Producers |-> "idle"]
    /\ enqueued = {}
    /\ calls = EmptyBag
    /\ completed = 0
    /\ errors = {}

NextLifecycle ==
    \/ Idle /\ \E u \in Users, e \in {"comment.added", "comment.changed", "comment.removed"} :
          setup_hook(u, e)
    \/ Idle /\ comment_create
    \/ Idle /\ comment_save
    \/ Idle /\ comment_delete
    \/ trigger_return /\ UNCHANGED clientVars

SpecLifecycle == LifecycleInit /\ [][NextLifecycle]_vars

(***************************************************************************)
(* models.py: get_event_actions_config and handle_hook_events_change run   *)
(* by several application threads at once, statement by statement.  Every  *)
(* access to the index goes through the global name, so the global's       *)
(* content stands for the dict it is bound to.  pcP[t] is the position of  *)
(* thread t: where it is, the items its loop has still to visit, the index *)
(* it was returned, the configuration a handler is about to install, and   *)
(* whether a configuration change ran at any time during its call.         *)
(***************************************************************************)
AtRest == [at |-> "idle", todo |-> <<>>, got |-> NoIndex, config |-> <<>>,
           overlap |-> FALSE]
SetPosition(t, position) == [pcP EXCEPT ![t] = position]
\* some thread is inside handle_hook_events_change
HandlerActive == \E t \in Producers : pcP[t].at = "replace"

\* a thread calls get_event_actions_config
index_call(t) ==
    /\ pcP[t].at = "idle"
    /\ pcP' = SetPosition(t, [AtRest EXCEPT !.at = "test", !.overlap = HandlerActive])
    /\ UNCHANGED <<HOOK_EVENTS, HOOK_EVENT_ACTIONS_CONFIG, HOOK_THREADING, hooks, last>>

\* line 38: if _HOOK_EVENT_ACTIONS_CONFIG is None
index_test(t) ==
    /\ pcP[t].at = "test"
    /\ pcP' = SetPosition(t, [pcP[t] EXCEPT !.at =
                 IF HOOK_EVENT_ACTIONS_CONFIG = NoIndex THEN "bind" ELSE "return"])
    /\ UNCHANGED <<HOOK_EVENTS, HOOK_EVENT_ACTIONS_CONFIG, HOOK_THREADING, hooks, last>>

\* line 39: _HOOK_EVENT_ACTIONS_CONFIG = {}
index_bind(t) ==
    /\ pcP[t].at = "bind"
    /\ HOOK_EVENT_ACTIONS_CONFIG' = {}
    /\ pcP' = SetPosition(t, [pcP[t] EXCEPT !.at = "items"])
    /\ UNCHANGED <<HOOK_EVENTS, HOOK_THREADING, hooks, last>>

\* line 40: HOOK_EVENTS.items() is evaluated once, on the dict bound then
index_items(t) ==
    /\ pcP[t].at = "items"
    /\ pcP' = SetPosition(t, [pcP[t] EXCEPT !.at = "loop",
                 !.todo = [n \in 1..Len(items(HOOK_EVENTS)) |->
                             <<items(HOOK_EVENTS)[n], HOOK_EVENTS[items(HOOK_EVENTS)[n]]>>]])
    /\ UNCHANGED <<HOOK_EVENTS, HOOK_EVENT_ACTIONS_CONFIG, HOOK_THREADING, hooks, last>>

\* lines 40-56: one iteration, on the dict the global is bound to now; on
\* None the setdefault of line 50 raises AttributeError
index_loop(t) ==
    /\ pcP[t].at = "loop"
    /\ IF pcP[t].todo = <<>>
         THEN /\ pcP' = SetPosition(t, [pcP[t] EXCEPT !.at = "return"])
              /\ UNCHANGED HOOK_EVENT_ACTIONS_CONFIG
       ELSE IF Head(pcP[t].todo)[2] = <<>>
         THEN /\ pcP' = SetPosition(t, [pcP[t] EXCEPT !.todo = Tail(@)])
              /\ UNCHANGED HOOK_EVENT_ACTIONS_CONFIG
       ELSE LET event_name == Head(pcP[t].todo)[1]
                entry == index_entry(event_name :> Head(pcP[t].todo)[2], event_name)
            IN IF HOOK_EVENT_ACTIONS_CONFIG = NoIndex
                 THEN /\ pcP' = SetPosition(t, [pcP[t] EXCEPT !.at = "raised",
                                                   !.got = {"AttributeError"}])
                      /\ UNCHANGED HOOK_EVENT_ACTIONS_CONFIG
               ELSE IF \E x \in HOOK_EVENT_ACTIONS_CONFIG :
                          x.model = entry.model /\ x.action = entry.action
                 THEN /\ pcP' = SetPosition(t, [pcP[t] EXCEPT !.at = "raised",
                                                   !.got = {"ImproperlyConfigured"}])
                      /\ UNCHANGED HOOK_EVENT_ACTIONS_CONFIG
               ELSE /\ HOOK_EVENT_ACTIONS_CONFIG' = HOOK_EVENT_ACTIONS_CONFIG \cup {entry}
                    /\ pcP' = SetPosition(t, [pcP[t] EXCEPT !.todo = Tail(@)])
    /\ UNCHANGED <<HOOK_EVENTS, HOOK_THREADING, hooks, last>>

\* line 57: return _HOOK_EVENT_ACTIONS_CONFIG
index_return(t) ==
    /\ pcP[t].at = "return"
    /\ pcP' = SetPosition(t, [pcP[t] EXCEPT !.at = "done", !.todo = <<>>,
                                             !.got = HOOK_EVENT_ACTIONS_CONFIG])
    /\ UNCHANGED <<HOOK_EVENTS, HOOK_EVENT_ACTIONS_CONFIG, HOOK_THREADING, hooks, last>>

\* the caller goes on with what it was returned, or with the exception
index_end(t) ==
    /\ pcP[t].at \in {"done", "raised"}
    /\ pcP' = SetPosition(t, AtRest)
    /\ UNCHANGED <<HOOK_EVENTS, HOOK_EVENT_ACTIONS_CONFIG, HOOK_THREADING, hooks, last>>

\* handle_hook_events_change, line 258: _HOOK_EVENT_ACTIONS_CONFIG = None;
\* config is settings.HOOK_EVENTS
change_clear(t, config) ==
    /\ pcP[t].at = "idle"
    /\ config # HOOK_EVENTS
    /\ HOOK_EVENT_ACTIONS_CONFIG' = NoIndex
    /\ pcP' = [p \in Producers |->
                 IF p = t THEN [AtRest EXCEPT !.at = "replace", !.config = config]
                 ELSE IF pcP[p].at = "idle" THEN pcP[p]
                 ELSE [pcP[p] EXCEPT !.overlap = TRUE]]
    /\ UNCHANGED <<HOOK_EVENTS, HOOK_THREADING, hooks, last>>

\* handle_hook_events_change, line 259: HOOK_EVENTS = settings.HOOK_EVENTS
change_replace(t) ==
    /\ pcP[t].at = "replace"
    /\ HOOK_EVENTS' = pcP[t].config
    /\ pcP' = SetPosition(t, AtRest)
    /\ UNCHANGED <<HOOK_EVENT_ACTIONS_CONFIG, HOOK_THREADING, hooks, last>>

\* the configurations of tests.py that override_settings switches between
RebuildConfigs == {HOOK_EVENTS_OVERRIDE, ALT_HOOK_EVENTS}

RebuildInit ==
    /\ HOOK_EVENTS = HOOK_EVENTS_OVERRIDE
    /\ HOOK_EVENT_ACTIONS_CONFIG = NoIndex
    /\ HOOK_THREADING = TRUE
    /\ hooks = <<>>
    /\ last = NoCall
    /\ queue = <<>>
    /\ flush_lock = Free
    /\ flush_threads = [i \in Slots |-> NewThread]
    /\ total_sent = 0
    /\ detached = 0
    /\ pcP = [p \in Producers |-> AtRest]
    /\ enqueued = {}
    /\ calls = EmptyBag
    /\ completed = 0
    /\ errors = {}

UnchangedButPosition ==
    UNCHANGED <<queue, flush_lock, flush_threads, total_sent, detached, enqueued,
                calls, completed, errors>>

NextRebuild ==
    \/ \E t \in Producers : index_call(t) /\ UnchangedButPosition
    \/ \E t \in Producers : index_test(t) /\ UnchangedButPosition
    \/ \E t \in Producers : index_bind(t) /\ UnchangedButPosition
    \/ \E t \in Producers : index_items(t) /\ UnchangedButPosition
    \/ \E t \in Producers : index_loop(t) /\ UnchangedButPosition
    \/ \E t \in Producers : index_return(t) /\ UnchangedButPosition
    \/ \E t \in Producers : index_end(t) /\ UnchangedButPosition
    \/ \E t \in Producers, config \in RebuildConfigs :
          change_clear(t, config) /\ UnchangedButPosition
    \/ \E t \in Producers : change_replace(t) /\ UnchangedButPosition

SpecRebuild == RebuildInit /\ [][NextRebuild]_vars

\* Client.__init__; the event pipeline is at rest with the threaded backend
ClientInit ==
    /\ queue = <<>>
    /\ flush_lock = Free
    /\ flush_threads = [i \in Slots |-> NewThread]
    /\ total_sent = 0
    /\ detached = 0
    /\ pcP = [p \in Producers |-> "idle"]
    /\ enqueued = {}
    /\ calls = EmptyBag
    /\ completed = 0
    /\ errors = {}
    /\ HOOK_EVENTS = HOOK_EVENTS_OVERRIDE
    /\ HOOK_EVENT_ACTIONS_CONFIG = NoIndex
    /\ HOOK_THREADING = TRUE
    /\ hooks = <<>>
    /\ last = NoCall

\* the dispatcher with HTTP calls that may raise
NextClient ==
    \/ ProducerStep /\ UNCHANGED pipeVars
    \/ WorkerStepOK /\ UNCHANGED pipeVars
    \/ WorkerRaise /\ UNCHANGED pipeVars
SpecClient == ClientInit /\ [][NextClient]_vars

\* the dispatcher with HTTP calls that all return normally
NextClientOK ==
    \/ ProducerStep /\ UNCHANGED pipeVars
    \/ WorkerStepOK /\ UNCHANGED pipeVars
SpecClientOK == ClientInit /\ [][NextClientOK]_vars

(***************************************************************************)
(* Properties of the threaded dispatcher                                   *)
(***************************************************************************)
\* worker i has taken an item and has not finished recording it
InFlight(i) == flush_threads[i].st \in {"http", "read", "write"}
\* worker i is between its pop and the end of its HTTP call
AtHttp(i) == flush_threads[i].st = "http"
\* every enqueue call has returned
ProducersIdle == \A p \in Producers : pcP[p] = "idle"
\* no FlushThread is alive
NoWorkerAlive == detached = 0 /\ \A i \in Slots : ~is_alive(flush_threads[i])
AliveWorkers == Cardinality({i \in Slots : is_alive(flush_threads[i])}) + detached

\* C1: no item is attempted twice and only enqueued items are attempted; once the
\* queue is empty and no worker is between its pop and its HTTP call, the HTTP
\* calls issued are exactly the enqueued items, each once, with its own method.
C1_ExactlyOnceAttempt ==
    /\ \A it \in BagToSet(calls) : it \in enqueued /\ CopiesIn(it, calls) = 1
    /\ (queue = <<>> /\ \A i \in Slots : ~AtHttp(i)) => calls = SetToBag(enqueued)

\* MaxItems items were enqueued, the queue has drained, and more than one worker
\* took part: all of them were attempted.
C1_Witness ==
    /\ Cardinality(enqueued) = MaxItems
    /\ queue = <<>>
    /\ ProducersIdle
    /\ NoWorkerAlive
    /\ BagCardinality(calls) = MaxItems
    /\ "IndexError" \in errors

\* C2 (as claimed): with HTTP calls that return normally, once every enqueue call
\* has returned and no worker is alive (nothing more happens without a further
\* enqueue), every enqueued item has been dequeued and attempted.
C2_EveryItemAttempted ==
    (ProducersIdle /\ NoWorkerAlive) => (queue = <<>> /\ calls = SetToBag(enqueued))

\* C3 (as claimed): once the queue has drained and no worker is in flight,
\* total_sent equals the number of HTTP calls that completed.
C3_TotalSentIsCompleted ==
    (queue = <<>> /\ \A i \in Slots : ~InFlight(i)) => total_sent = completed

\* C4 (as claimed): total_sent never decreases from one state to the next.
C4_TotalSentMonotone == [][total_sent' >= total_sent]_vars

\* C5: the number of live worker threads, and so the number of HTTP calls in
\* flight, never exceeds num_threads.
C5_BoundedConcurrency ==
    /\ AliveWorkers <= num_threads
    /\ Cardinality({i \in Slots : AtHttp(i)}) + detached <= num_threads

\* the whole pool is busy in HTTP calls while a producer, holding the lock with
\* work queued, is about to look for dead workers
C5_Witness ==
    /\ \A i \in Slots : AtHttp(i)
    /\ Len(queue) > 0
    /\ \E p \in Producers : pcP[p] = "locked"

\* C6: flush_lock is only ever held by a thread inside refresh_threads, never by
\* a thread that is performing an HTTP call; whoever a waiting enqueue waits for
\* is therefore not waiting for the network.
C6_LockNeverOverlapsHttp ==
    /\ \A i \in Slots : AtHttp(i) => flush_lock # WorkerThread(i)
    /\ flush_lock # Free =>
          \E p \in Producers :
              flush_lock = ProducerThread(p) /\ pcP[p] \in {"locked", "release"}

\* a worker is blocked in its HTTP call while one enqueue holds the lock and
\* another enqueue waits for it
C6_Witness ==
    /\ \E i \in Slots : AtHttp(i)
    /\ flush_lock # Free
    /\ \E p \in Producers : pcP[p] = "refresh"

(***************************************************************************)
(* Properties of the event pipeline                                        *)
(***************************************************************************)
HookSet == {hooks[k] : k \in DOMAIN hooks}
\* the hooks the call in progress posted to, and the hooks its finder selected
PostedTo == {last.posts[q].hook : q \in DOMAIN last.posts}
Matched == {last.matched[k].id : k \in DOMAIN last.matched}
\* the posts follow the selected hooks in order, one each, up to where the call
\* stopped; a call that raised nothing went through all of them
PostsFollowMatched ==
    /\ Len(last.posts) <= Len(last.matched)
    /\ \A q \in DOMAIN last.posts : last.posts[q].hook = last.matched[q].id
    /\ last.raised = "none" => Len(last.posts) = Len(last.matched)
\* the descriptor of event e carries the ignore-owner marker
PlusEvent(e) ==
    /\ e \in DOMAIN HOOK_EVENTS
    /\ HOOK_EVENTS[e] # <<>>
    /\ HOOK_EVENTS[e][Len(HOOK_EVENTS[e])] = "+"
Subscribers(e) == {h.id : h \in {x \in HookSet : x.event = e}}

\* C7 (as claimed): when building or handing off the payload of one matched
\* subscription raises, every other matched subscription is still handed to the
\* dispatcher.
C7_FailureIsolated ==
    last.raised \in {"BuildError", "ConnectionError"} =>
        \A k \in DOMAIN last.matched :
            (last.matched[k].id \notin {last.env.build, last.env.http})
                => last.matched[k].id \in PostedTo

\* C8 (as claimed): with either backend, a failing outbound HTTP call never
\* makes the trigger call raise to its caller.
C8_HttpFailureInvisible == last.raised # "ConnectionError"

\* C9: a model trigger (no owner override) on an instance with an owner, whose
\* (model, action) is the descriptor, without '+', of event e: the finder selects
\* exactly the subscriptions of e owned by the instance's owner, and nothing is
\* handed off for any other subscription.
C9_OwnerScopedFiring ==
    (/\ last.op \in {"model_saved", "model_deleted", "custom_action"}
     /\ last.user = PyNone
     /\ (last.instance.has_user \/ last.instance.is_user)) =>
        \A e \in DOMAIN HOOK_EVENTS :
            HOOK_EVENTS[e] = last.instance.label \o <<".">> \o last.action =>
                /\ Matched = {h.id : h \in {x \in HookSet :
                                 x.event = e /\ x.user = last.instance.user}}
                /\ PostsFollowMatched

\* alice's comment is created while alice and bob both subscribe to the event:
\* alice's subscription alone is handed off
C9_Witness ==
    /\ last.op = "model_saved"
    /\ last.instance = Comment("alice")
    /\ last.action = <<"created">>
    /\ last.raised = "none"
    /\ Len(hooks) = 2
    /\ \A h \in HookSet : h.event = "comment.added"
    /\ {h.user : h \in HookSet} = Users
    /\ Len(last.posts) = 1

\* C10 (as claimed): every firing of an event whose descriptor ends in '+' that
\* returns normally has delivered to all subscriptions of the event, on every
\* path, trust_event_name asserted or not.
C10_FanOutEveryPath ==
    (PlusEvent(last.fired) /\ last.raised = "none") => PostedTo = Subscribers(last.fired)

\* C10 (amended): on the model / custom-action path, whatever owner override is
\* passed, and on raw_custom_event without trust_event_name, whatever owner is
\* passed, the finder selects all subscriptions of the '+' event; with
\* trust_event_name the '+' is not consulted and the selection is by owner.
C10_FanOutUnlessTrusted ==
    PlusEvent(last.fired) =>
        IF last.op = "raw_custom_event" /\ last.trust
          THEN last.raised # "Exception" =>
                 /\ Matched = {h.id : h \in {x \in HookSet :
                                  /\ x.event = last.fired
                                  /\ x.user = owner_filter(last.instance, last.user)}}
                 /\ PostsFollowMatched
          ELSE /\ Matched = Subscribers(last.fired)
               /\ PostsFollowMatched

\* raw_custom_event without trust_event_name names the '+' event with owner
\* bob: alice's subscription is handed off all the same
C10_Witness ==
    /\ last.op = "raw_custom_event"
    /\ ~last.trust
    /\ last.user = "bob"
    /\ PlusEvent(last.fired)
    /\ last.raised = "none"
    /\ \E h \in HookSet : h.user = "alice" /\ h.id \in PostedTo

\* the (model, action) of the trigger in progress is the descriptor of no
\* configured event, with or without the marker
NoDescriptorFor(label, action) ==
    \A e \in DOMAIN HOOK_EVENTS :
        /\ HOOK_EVENTS[e] # label \o <<".">> \o action
        /\ HOOK_EVENTS[e] # label \o <<".">> \o action \o <<"+">>

\* C11 (as claimed): a trigger whose (model, action) has no automatic
\* descriptor, and a raw_custom_event without trust_event_name naming an event
\* that is not configured, raise nothing and hand nothing to the dispatcher.
C11_UnconfiguredSilent ==
    (\/ /\ last.op \in {"model_saved", "model_deleted", "custom_action"}
        /\ NoDescriptorFor(last.instance.label, last.action)
     \/ /\ last.op = "raw_custom_event"
        /\ ~last.trust
        /\ last.event_name \notin DOMAIN HOOK_EVENTS)
    => (last.raised = "none" /\ last.posts = <<>>)

\* the body raw_custom_event is to deliver to hook h
RawBody(h) ==
    IF last.meta THEN [kind |-> "dict", hook |-> dict(h), data |-> last.payload]
    ELSE last.payload

\* C19 (as claimed): raw_custom_event posts, to each matched subscription, the
\* caller's payload unchanged, or wrapped as {hook, data: payload} under
\* send_hook_meta, for every payload value; the instance is never serialized.
C19_RawPayloadAsIs ==
    last.op = "raw_custom_event" =>
        /\ last.raised # "AttributeError"
        /\ \A q \in DOMAIN last.posts :
               last.posts[q].data = json_dumps(RawBody(hooks[last.posts[q].hook]))

\* C20: hook_sent_event is emitted once for each subscription whose hand-off
\* returned, in order, with the payload posted and the instance, and for no
\* other subscription: a hand-off that raised is the last post and has no
\* notification. A receiver that raises neither reaches the trigger's caller
\* nor stops the deliveries that follow.
C20_SentAfterHandOff ==
    /\ \A q \in DOMAIN last.sent :
          /\ q \in DOMAIN last.posts
          /\ last.sent[q].hook = last.posts[q].hook
          /\ json_dumps(last.sent[q].payload) = last.posts[q].data
          /\ last.sent[q].instance = last.instance.name
    /\ Len(last.sent) = IF last.raised = "ConnectionError"
                          THEN Len(last.posts) - 1 ELSE Len(last.posts)
    /\ last.raised # "ObserverError"
    /\ PostsFollowMatched

\* two subscriptions are matched, a receiver of the notification raises for
\* the first: both are posted to and both notifications are emitted
C20_Witness ==
    /\ last.env.observer = 1
    /\ Len(last.matched) = 2
    /\ last.matched[1].id = 1
    /\ last.raised = "none"
    /\ Len(last.posts) = 2
    /\ Len(last.sent) = 2
    /\ last.sent[1].responses = <<"ObserverError">>

(***************************************************************************)
(* Properties of the resolver and the finder called directly               *)
(***************************************************************************)
\* the subscriptions of event e the finder selects for the call in progress
\* when the owner it filters on is u
OwnedSubscribers(e, u) == {h.id : h \in {x \in HookSet : x.event = e /\ x.user = u}}
\* an owner can be found for the call in progress
OwnerKnown == Truthy(last.owner) \/ last.instance.has_user \/ last.instance.is_user

\* C12: find_and_fire_hook with an event name that is no key of HOOK_EVENTS
\* raises and hands nothing over, whatever subscriptions exist; with a
\* configured event that has no descriptor and a user as instance it returns
\* normally, having delivered to the subscriptions it selected.
C12_FinderRejectsUnknown ==
    last.op = "find_and_fire_hook" =>
        /\ last.event_name \notin DOMAIN HOOK_EVENTS =>
              (last.raised = "Exception" /\ last.posts = <<>> /\ last.sent = <<>>)
        /\ (/\ last.event_name \in DOMAIN HOOK_EVENTS
            /\ HOOK_EVENTS[last.event_name] = <<>>
            /\ last.instance.is_user) =>
              (last.raised = "none" /\ PostsFollowMatched)

\* find_and_fire_hook('some.fake.event', user) while bob subscribes to
\* 'some.fake.event'
C12_Witness ==
    /\ last.op = "find_and_fire_hook"
    /\ last.event_name = "some.fake.event"
    /\ last.instance = UserObj("bob")
    /\ last.raised = "Exception"
    /\ \E h \in HookSet : h.event = "some.fake.event" /\ h.user = "bob"

\* C13 (as claimed): with an event name and trust_event_name, the finder is
\* called with that name and the subscriptions of that name (of the owner in
\* force) are fired, whether or not the name is configured.
C13_TrustedFiresExactly ==
    (/\ last.op = "distill_model_event"
     /\ Truthy(last.event_name)
     /\ last.trust
     /\ OwnerKnown) =>
        /\ last.fired = last.event_name
        /\ last.raised = "none"
        /\ PostedTo = OwnedSubscribers(last.event_name,
                                       owner_filter(last.instance, last.owner))

\* C14: an event name given without trust_event_name and configured with the
\* descriptor M.A: a model or action the caller supplies that differs from M or
\* A cancels the firing without error; otherwise the finder is called with the
\* event name.
C14_MismatchCancels ==
    \A e \in DOMAIN HOOK_EVENTS, M \in Labels, A \in Actions, plus \in BOOLEAN :
        (/\ last.op = "distill_model_event"
         /\ ~last.trust
         /\ last.event_name = e
         /\ HOOK_EVENTS[e] = Descriptor(M, A, plus)) =>
            IF \/ TruthySeq(last.model) /\ last.model # M
               \/ TruthySeq(last.action) /\ last.action # A
              THEN /\ last.fired = PyNone
                   /\ last.raised = "none"
                   /\ last.posts = <<>>
              ELSE last.fired = e

\* 'comment.added' named for a Site: alice's subscription is not fired
C14_Witness ==
    /\ last.op = "distill_model_event"
    /\ ~last.trust
    /\ last.event_name = "comment.added"
    /\ last.model = SiteLabel
    /\ last.instance = SiteObj
    /\ last.user = "bob"
    /\ \E h \in HookSet : h.event = "comment.added" /\ h.user = "bob"
    /\ last.fired = PyNone
    /\ last.posts = <<>>

\* C15 (as claimed): a call of distill_model_event with no event name and
\* without both a model and an action, the missing one being False or None,
\* raises TypeError.
C15_MissingArgumentsRaise ==
    (/\ last.op = "distill_model_event"
     /\ ~Truthy(last.event_name)
     /\ (~TruthySeq(last.model) \/ ~TruthySeq(last.action))) =>
        last.raised = "TypeError"

\* C16: when the finder is called for a configured event with no owner
\* override (None, not the ignore-owner False) and an instance that has no
\* user and is no user, it raises and hands nothing over; with an override, an
\* instance that has a user or an instance that is a user, it does not raise.
C16_OwnerResolution ==
    last.fired \in DOMAIN HOOK_EVENTS =>
        IF last.owner = PyNone /\ ~last.instance.has_user /\ ~last.instance.is_user
          THEN last.raised = "Exception" /\ last.posts = <<>> /\ last.sent = <<>>
          ELSE last.raised = "none"

\* 'special.thing' is fired for a Site with no override while a subscription
\* to it exists
C16_Witness ==
    /\ last.fired = "special.thing"
    /\ last.instance = SiteObj
    /\ last.owner = PyNone
    /\ last.raised = "Exception"
    /\ \E h \in HookSet : h.event = "special.thing"

(***************************************************************************)
(* Properties of the configuration index                                   *)
(***************************************************************************)
\* two event names of the configuration carry descriptors for one (model,
\* action)
HasDuplicate(config) ==
    \E e1, e2 \in DOMAIN config : \E M \in Labels, A \in Actions, p1, p2 \in BOOLEAN :
        /\ e1 # e2
        /\ config[e1] = Descriptor(M, A, p1)
        /\ config[e2] = Descriptor(M, A, p2)

\* C17 (as claimed): under a configuration with a duplicate descriptor every
\* call of get_event_actions_config raises ImproperlyConfigured, the first and
\* every later one.
C17_DuplicatesAlwaysRejected ==
    (last.op = "get_event_actions_config" /\ HasDuplicate(HOOK_EVENTS)) =>
        last.raised = "ImproperlyConfigured"

\* C18: under a configuration without duplicates get_event_actions_config
\* returns an index in which the (M, A) of each descriptor 'M.A' or 'M.A+'
\* resolves to its event name, with the flag set exactly for '+', and in which
\* no event name without descriptor occurs.
C18_DescriptorRoundTrip ==
    (last.op = "get_event_actions_config" /\ ~HasDuplicate(HOOK_EVENTS)) =>
        /\ last.raised = "none"
        /\ \A E \in DOMAIN HOOK_EVENTS, M \in Labels, A \in Actions, plus \in BOOLEAN :
              HOOK_EVENTS[E] = Descriptor(M, A, plus) =>
                  index_get(last.index, M, A) = [event |-> E, ignore |-> plus]
        /\ \A x \in last.index :
              x.event \in DOMAIN HOOK_EVENTS /\ HOOK_EVENTS[x.event] # <<>>

\* the index of ALT_HOOK_EVENTS: two entries, 'special.thing' in neither
C18_Witness ==
    /\ last.op = "get_event_actions_config"
    /\ HOOK_EVENTS = ALT_HOOK_EVENTS
    /\ last.raised = "none"
    /\ Cardinality(last.index) = 2
    /\ index_get(last.index, CommentLabel, <<"moderated">>)
         = [event |-> "comment.moderated", ignore |-> TRUE]

(***************************************************************************)
(* Properties of the life cycle of one instance                            *)
(***************************************************************************)
\* the entries handed to the dispatcher so far, in the order of the hand-offs
Delivered == [n \in 1..Cardinality(enqueued) |-> CHOOSE it \in enqueued : it.id = n]
\* the events of the operations done on the comment so far
OpsDone ==
    CASE pcP[1] = "created" -> <<"comment.added">>
      [] pcP[1] = "updated" -> <<"comment.added", "comment.changed">>
      [] pcP[1] = "deleted" -> <<"comment.added", "comment.changed", "comment.removed">>
      [] OTHER -> <<>>
\* bob's subscriptions to these events, event after event
RECURSIVE SubscribedTo(_)
SubscribedTo(events) ==
    IF events = <<>> THEN <<>>
    ELSE SelectSeq(hooks, LAMBDA h : h.event = Head(events) /\ h.user = "bob")
         \o SubscribedTo(Tail(events))

\* C21: the comment of bob created, saved again and deleted: what has been
\* handed to the dispatcher is, operation after operation, one POST to each
\* of bob's subscriptions to the event of that operation ('comment.added',
\* then 'comment.changed', then 'comment.removed') and nothing else; with one
\* subscription per event, one delivery per operation in that order.
C21_LifecycleOrder ==
    /\ Len(Delivered) = Len(SubscribedTo(OpsDone))
    /\ \A n \in 1..Len(Delivered) :
          /\ Delivered[n].method = "post"
          /\ Delivered[n].url = SubscribedTo(OpsDone)[n].target
          /\ Delivered[n].data.json.hook = dict(SubscribedTo(OpsDone)[n])

\* bob subscribes to the three events, removed first; the comment has been
\* deleted: three deliveries, added, changed, removed
C21_Witness ==
    /\ pcP[1] = "deleted"
    /\ Len(hooks) = 3
    /\ hooks[1].event = "comment.removed" /\ hooks[1].user = "bob"
    /\ hooks[2].event = "comment.changed" /\ hooks[2].user = "bob"
    /\ hooks[3].event = "comment.added" /\ hooks[3].user = "bob"
    /\ Len(Delivered) = 3
    /\ Delivered[1].data.json.hook.event = "comment.added"
    /\ Delivered[2].data.json.hook.event = "comment.changed"
    /\ Delivered[3].data.json.hook.event = "comment.removed"

(***************************************************************************)
(* Further properties of the registry and of the threaded dispatcher       *)
(***************************************************************************)
\* C22 (as claimed): every stored subscription has an event name of the
\* configured set, however it was created.
C22_StoredEventsConfigured == \A h \in HookSet : h.event \in DOMAIN HOOK_EVENTS

\* C25 (as claimed): the append of enqueue, the emptiness test and the pop of
\* sync_flush, and the replacement of workers in refresh_threads are each done
\* by a thread that holds flush_lock.
C25_QueueUnderLock ==
    [][/\ \A p \in Producers :
            (enqueue(p) \/ refresh_threads(p)) => flush_lock = ProducerThread(p)
       /\ \A i \in Slots :
            (sync_flush_test(i) \/ sync_flush_pop(i)) => flush_lock = WorkerThread(i)]_vars

\* C26 (as claimed): after an HTTP call has raised in a worker, the state
\* where entries are left in the queue, no worker is alive and no enqueue is
\* in progress, which no step but a further enqueue leaves, is not reached.
C26_NoStrandedQueue ==
    ("HTTPError" \in errors /\ ProducersIdle /\ NoWorkerAlive) => queue = <<>>

\* C27 (as claimed): no worker executes queue.pop() on an empty queue.
C27_NoPopFromEmpty == "IndexError" \notin errors

(***************************************************************************)
(* Properties of the index under concurrent calls                          *)
(***************************************************************************)
\* C23 (as claimed): every get_event_actions_config call that returns yields
\* a complete index, that of one of the configurations in use.
C23_AtomicRebuild ==
    \A t \in Producers :
        pcP[t].at = "done" =>
            pcP[t].got \in {build_index(config).index : config \in RebuildConfigs}

\* C24 (as claimed): a get_event_actions_config call during which no
\* configuration change was running, made after the last change completed,
\* returns nothing but entries of the index of the configuration in force.
C24_NoStaleIndex ==
    \A t \in Producers :
        (pcP[t].at = "done" /\ ~pcP[t].overlap) =>
            pcP[t].got \subseteq build_index(HOOK_EVENTS).index

====
